---- MODULE Spec2Model ----
(***************************************************************************)
(* Model of src/src/proto_identify.c: the keyword table, the keyword       *)
(* dictionary tree (child / sibling pointer graph with a per-node edge     *)
(* array), its construction, search and teardown, and the three public     *)
(* entry points proto_identify_init_keyword_dict,                          *)
(* proto_identify_destroy_keyword_dict and identify_tcp_protocol.          *)
(*                                                                         *)
(* Pointers are node ids into `heap` (a sequence of nodes in allocation    *)
(* order), NULL is 0.  C arrays are 0-based, TLA+ sequences 1-based: C      *)
(* index i is position i + 1.  calloc is taken to succeed.                 *)
(***************************************************************************)
EXTENDS Integers, Sequences, FiniteSets, TLC

VARIABLES
    keywords,      \* static struct keyword_container keywords[MAX_KEYWORDS]
    num_keywords,  \* static unsigned int num_keywords
    kd_root,       \* struct keyword_dict_node *kd_root
    heap,          \* every node calloc ever returned, by id
    freed,         \* ids passed to free()
    refreed,       \* ids passed to free() while already freed
    uaf,           \* a freed node has been read
    crashed,       \* the process was killed after undefined behaviour
    roots,         \* ids allocated as a root (construct_keyword_dict, line 448)
    last,          \* the last completed call of the sequential callers
    charSigned,    \* whether plain char is signed in this build
    pc,            \* position of each concurrent caller
    loc,           \* locals of each concurrent caller
    adds           \* signatures the table harness has added

vars == <<keywords, num_keywords, kd_root, heap, freed, refreed, uaf, crashed,
          roots, last, charSigned, pc, loc, adds>>

(***************************************************************************)
(* Program constants                                                       *)
(***************************************************************************)
NULL == 0
DIR_UNKNOWN == 0
DIR_CLIENT == 1
DIR_SERVER == 2
MAX_VAL_LEN == 32
MAX_VAL_BYTES == 2 * MAX_VAL_LEN
MAX_KEYWORDS == 256
WILDCARD == 256
MAX_CHILDREN == 257
SizeofU16 == 2

(***************************************************************************)
(* Bounds of the model                                                     *)
(***************************************************************************)
MaxAdds == 2
NumCallers == 2

(***************************************************************************)
(* Data                                                                    *)
(***************************************************************************)
ZeroPi == [dir |-> 0, app |-> 0]

\* one element of keywords[] after memset / static zero initialisation
ZeroKeyword == [value |-> <<>>, value_len |-> 0, pi |-> ZeroPi]

\* keywords[] after memset: `keywords` holds the written prefix of the
\* MAX_KEYWORDS-slot array, every other slot reads ZeroKeyword
ZeroKeywords == <<>>

\* keywords[i]
KeywordAt(kw, i) == IF i < Len(kw) THEN kw[i + 1] ELSE ZeroKeyword

\* keywords[i] = kc, for i within the MAX_KEYWORDS slots
SetKeyword(kw, i, kc) ==
    IF i < Len(kw) THEN [kw EXCEPT ![i + 1] = kc]
    ELSE kw \o [j \in 1..(i - Len(kw)) |-> ZeroKeyword] \o <<kc>>

\* calloc(1, sizeof(struct keyword_dict_node)); edge holds the written prefix
\* of the 257-slot array, every other slot reads 0
ZeroNode == [edge |-> <<>>, child |-> NULL, sibling |-> NULL,
             num_children |-> 0, pi |-> ZeroPi]

\* node->edge[k]
EdgeAt(node, k) == IF k < Len(node.edge) THEN node.edge[k + 1] ELSE 0

\* node->edge[k] = v, for k within the 257 slots
SetEdge(e, k, v) ==
    IF k < Len(e) THEN [e EXCEPT ![k + 1] = v]
    ELSE e \o [j \in 1..(k - Len(e)) |-> 0] \o <<v>>

\* the value of *data, a plain char, in the comparison of line 495
ToChar(b) == IF charSigned /\ b >= 128 THEN b - 256 ELSE b

Range(s) == {s[j] : j \in 1..Len(s)}

(***************************************************************************)
(* Keyword table                                                           *)
(***************************************************************************)
\* add_keyword on table <<kw, n>>: [keywords, num_keywords, ret]
AddKeywordSkipsTooLong(kw, n, value, value_bytes_len, pi) ==
    IF n >= MAX_KEYWORDS
    THEN [keywords |-> kw, num_keywords |-> n, ret |-> 1]
    ELSE IF value_bytes_len > MAX_VAL_BYTES
    THEN [keywords |-> kw, num_keywords |-> n + 1, ret |-> 1]
    ELSE [keywords |-> SetKeyword(kw, n,
                          [value |-> SubSeq(value, 1, value_bytes_len \div SizeofU16),
                           value_len |-> value_bytes_len \div SizeofU16,
                           pi |-> pi]),
          num_keywords |-> n + 1, ret |-> 0]

add_keyword(kw, n, value, value_bytes_len, pi) ==
    IF n >= MAX_KEYWORDS
    THEN [keywords |-> kw, num_keywords |-> n, ret |-> 1]
    ELSE IF value_bytes_len > MAX_VAL_BYTES
    THEN [keywords |-> kw, num_keywords |-> n, ret |-> 1]
    ELSE [keywords |-> SetKeyword(kw, n,
                          [value |-> SubSeq(value, 1, value_bytes_len \div SizeofU16),
                           value_len |-> value_bytes_len \div SizeofU16,
                           pi |-> pi]),
          num_keywords |-> n + 1, ret |-> 0]

\* the two arrays of add_tls_identifiers
TlsClientHello == <<22, 3, 1, WILDCARD, WILDCARD, 1>>
TlsServerHello == <<22, 3, 1, WILDCARD, WILDCARD, 2>>
TlsPort == 443

\* sizeof(string) of a uint16_t array
SizeofValue(value) == SizeofU16 * Len(value)

\* the second block of add_tls_identifiers, after the first add_keyword gave a
AddServerHello(a) ==
    IF a.ret # 0 THEN a
    ELSE add_keyword(a.keywords, a.num_keywords, TlsServerHello,
                     SizeofValue(TlsServerHello),
                     [dir |-> DIR_SERVER, app |-> TlsPort])

add_tls_identifiers(kw, n) ==
    AddServerHello(add_keyword(kw, n, TlsClientHello, SizeofValue(TlsClientHello),
                               [dir |-> DIR_CLIENT, app |-> TlsPort]))

populate_keyword_identifiers(kw, n) == add_tls_identifiers(kw, n)

\* memset, then populate; num_keywords is not reset
init_keywords(kw, n) == populate_keyword_identifiers(ZeroKeywords, n)

(***************************************************************************)
(* Tree nodes: allocation and edge creation                                *)
(***************************************************************************)
\* an allocation that does not zero the node (malloc): pi holds what the
\* memory held
AllocWithoutZeroing(h) ==
    [heap |-> Append(h, [ZeroNode EXCEPT !.pi = [dir |-> DIR_UNKNOWN, app |-> 1]]),
     ptr |-> Len(h) + 1]

\* alloc_kdn: the heap with one more zeroed node, and its id
alloc_kdn(h) == [heap |-> Append(h, ZeroNode), ptr |-> Len(h) + 1]

\* kdn_create_child(parent, edge): [heap, ptr]
kdn_create_child(h, parent, edge) ==
    IF parent = NULL THEN [heap |-> h, ptr |-> NULL]
    ELSE IF h[parent].child # NULL \/ h[parent].num_children # 0
    THEN [heap |-> h, ptr |-> NULL]
    ELSE LET a == alloc_kdn(h)
             n == h[parent].num_children
         IN  [heap |-> [a.heap EXCEPT ![parent] =
                           [@ EXCEPT !.child = a.ptr,
                                     !.edge = SetEdge(@, n, edge),
                                     !.num_children = n + 1]],
              ptr |-> a.ptr]

\* kdn_create_sibling with the capacity test one edge earlier
CreateSiblingRefusesEarlier(h, parent, child, edge) ==
    IF parent = NULL \/ child = NULL THEN [heap |-> h, ptr |-> NULL]
    ELSE IF h[parent].num_children >= MAX_CHILDREN - 2
    THEN [heap |-> h, ptr |-> NULL]
    ELSE [heap |-> [Append(h, ZeroNode) EXCEPT
                       ![child] = [@ EXCEPT !.sibling = Len(h) + 1],
                       ![parent] = [@ EXCEPT
                           !.edge = SetEdge(@, h[parent].num_children, edge),
                           !.num_children = h[parent].num_children + 1]],
          ptr |-> Len(h) + 1]

\* kdn_create_sibling(parent, child, edge): [heap, ptr]
kdn_create_sibling(h, parent, child, edge) ==
    IF parent = NULL \/ child = NULL THEN [heap |-> h, ptr |-> NULL]
    ELSE IF h[parent].num_children = MAX_CHILDREN - 1
    THEN [heap |-> h, ptr |-> NULL]
    ELSE LET a == alloc_kdn(h)
             n == h[parent].num_children
             h1 == [a.heap EXCEPT ![child] = [@ EXCEPT !.sibling = a.ptr]]
         IN  [heap |-> [h1 EXCEPT ![parent] =
                           [@ EXCEPT !.edge = SetEdge(@, n, edge),
                                     !.num_children = n + 1]],
              ptr |-> a.ptr]

(***************************************************************************)
(* keyword_dict_add_keyword                                                *)
(***************************************************************************)
\* the for (k ...) loop of lines 393-407 from index k with `child` as it stands:
\* [match, child] at the break or at the end of the loop
RECURSIVE ScanEdgesNoDedup(_, _, _, _, _)
ScanEdgesNoDedup(h, node, val, k, child) ==
    IF k >= h[node].num_children THEN [match |-> FALSE, child |-> child]
    ELSE IF h[child].sibling # NULL
    THEN ScanEdgesNoDedup(h, node, val, k + 1, h[child].sibling)
    ELSE ScanEdgesNoDedup(h, node, val, k + 1, child)

\* iterations lo .. hi - 1 of that loop, in order, with `child` as it stands
\* before them; the range is halved, and the first half evaluated before the
\* second is entered, only to keep the evaluation shallow
RECURSIVE ScanRange(_, _, _, _, _, _)
ScanNext(r, h, node, val, lo, hi) ==
    IF r.match THEN r ELSE ScanRange(h, node, val, lo, hi, r.child)

ScanRange(h, node, val, lo, hi, child) ==
    IF lo >= hi THEN [match |-> FALSE, child |-> child]
    ELSE IF hi = lo + 1
    THEN \* one iteration, lines 397-406
         IF val = EdgeAt(h[node], lo) THEN [match |-> TRUE, child |-> child]
         ELSE IF h[child].sibling # NULL
         THEN [match |-> FALSE, child |-> h[child].sibling]
         ELSE [match |-> FALSE, child |-> child]
    ELSE ScanNext(ScanRange(h, node, val, lo, (lo + hi) \div 2, child),
                  h, node, val, (lo + hi) \div 2, hi)

ScanEdges(h, node, val, k, child) ==
    ScanRange(h, node, val, k, h[node].num_children, child)

\* the for (i ...) loop of lines 384-422 from index i at `node`, then line 428:
\* [heap, nullDeref]; nullDeref: the loop or line 428 dereferenced a NULL node
\* an insertion that leaves an inference already attached in place
RECURSIVE InsertFromKeepsFirst(_, _, _, _)
InsertFromKeepsFirst(h, node, kc, i) ==
    IF node = NULL THEN [heap |-> h, nullDeref |-> TRUE]
    ELSE IF i >= kc.value_len
    THEN [heap |-> IF h[node].pi = ZeroPi
                   THEN [h EXCEPT ![node] = [@ EXCEPT !.pi = kc.pi]] ELSE h,
          nullDeref |-> FALSE]
    ELSE IF h[node].child = NULL
    THEN InsertFromKeepsFirst(kdn_create_child(h, node, kc.value[i + 1]).heap,
                              kdn_create_child(h, node, kc.value[i + 1]).ptr,
                              kc, i + 1)
    ELSE IF ScanEdges(h, node, kc.value[i + 1], 0, h[node].child).match
    THEN InsertFromKeepsFirst(h, ScanEdges(h, node, kc.value[i + 1], 0,
                                           h[node].child).child, kc, i + 1)
    ELSE InsertFromKeepsFirst(
             kdn_create_sibling(h, node,
                                ScanEdges(h, node, kc.value[i + 1], 0,
                                          h[node].child).child,
                                kc.value[i + 1]).heap,
             kdn_create_sibling(h, node,
                                ScanEdges(h, node, kc.value[i + 1], 0,
                                          h[node].child).child,
                                kc.value[i + 1]).ptr,
             kc, i + 1)

RECURSIVE InsertFrom(_, _, _, _)
InsertFrom(h, node, kc, i) ==
    IF node = NULL THEN [heap |-> h, nullDeref |-> TRUE]
    ELSE IF i >= kc.value_len
    THEN [heap |-> [h EXCEPT ![node] = [@ EXCEPT !.pi = kc.pi]],
          nullDeref |-> FALSE]
    ELSE LET val == kc.value[i + 1]
         IN  IF h[node].child # NULL
             THEN LET s == ScanEdges(h, node, val, 0, h[node].child)
                  IN  IF s.match
                      THEN InsertFrom(h, s.child, kc, i + 1)
                      ELSE LET c == kdn_create_sibling(h, node, s.child, val)
                           IN  InsertFrom(c.heap, c.ptr, kc, i + 1)
             ELSE LET c == kdn_create_child(h, node, val)
                  IN  InsertFrom(c.heap, c.ptr, kc, i + 1)

keyword_dict_add_keyword(h, root, kc) ==
    IF root = NULL THEN [heap |-> h, nullDeref |-> FALSE]
    ELSE InsertFrom(h, root, kc, 0)

\* one iteration of the for loop of construct_keyword_dict (lines 454-461) on
\* r = [heap, nullDeref]; after a NULL dereference nothing more runs
ConstructStep(r, root, kc) ==
    IF r.nullDeref THEN r ELSE keyword_dict_add_keyword(r.heap, root, kc)

\* iterations lo .. hi - 1 of that loop, in order, starting from r; the range is
\* halved, and the first half evaluated before the second is entered, only to
\* keep the evaluation shallow
RECURSIVE ConstructRange(_, _, _, _, _)
ConstructRest(r, root, kw, lo, hi) ==
    IF r.nullDeref THEN r ELSE ConstructRange(r, root, kw, lo, hi)

ConstructRange(r, root, kw, lo, hi) ==
    IF lo >= hi THEN r
    ELSE IF hi = lo + 1 THEN ConstructStep(r, root, KeywordAt(kw, lo))
    ELSE ConstructRest(ConstructRange(r, root, kw, lo, (lo + hi) \div 2),
                       root, kw, (lo + hi) \div 2, hi)

\* the for loop of construct_keyword_dict from index i to num_keywords
ConstructFrom(h, root, kw, n, i) ==
    ConstructRange([heap |-> h, nullDeref |-> FALSE], root, kw, i, n)

\* lines 454-463 of construct_keyword_dict, after *root = alloc_kdn() gave a
ConstructInto(a, kw, n) ==
    [root |-> a.ptr, ret |-> 0, res |-> ConstructFrom(a.heap, a.ptr, kw, n, 0)]

\* construct_keyword_dict(&root): [root, ret, res: [heap, nullDeref]]
construct_keyword_dict(h, root, kw, n) ==
    IF root # NULL
    THEN [root |-> root, ret |-> 1, res |-> [heap |-> h, nullDeref |-> FALSE]]
    ELSE ConstructInto(alloc_kdn(h), kw, n)

(***************************************************************************)
(* search_keyword_dict                                                     *)
(***************************************************************************)
\* *data of a call whose data pointer is buf + off (line 495)
DataAt(buf, off) == IF off < Len(buf) THEN ToChar(buf[off + 1]) ELSE 0

\* the test of line 495 on edge value e
EdgeMatchesLiteralOnly(e, buf, off) == DataAt(buf, off) = e

EdgeMatches(e, buf, off) == e = WILDCARD \/ DataAt(buf, off) = e

NoResult(oob, nullDeref) ==
    [pi |-> NULL, app |-> 0, dir |-> 0, oob |-> oob, nullDeref |-> nullDeref]

\* search_keyword_dict(node, buf + off, data_len), inside its for loop at index i
\* with `child` as it stands.  Result: pi (NULL or the node whose pi is returned),
\* its app and dir, oob (a byte at or past buf + Len(buf) was read) and
\* nullDeref (child was NULL when dereferenced).
RECURSIVE SearchEdgesNoLenCheck(_, _, _, _, _, _, _, _)
SearchEdgesNoLenCheck(h, node, buf, off, data_len, i, child, oob) ==
    IF i >= h[node].num_children THEN NoResult(oob, FALSE)
    ELSE LET e == EdgeAt(h[node], i)
             reads == e # WILDCARD
             oob1 == oob \/ (reads /\ off >= Len(buf))
         IN  IF child = NULL THEN NoResult(oob1, TRUE)
             ELSE IF EdgeMatches(e, buf, off)
             THEN IF h[child].pi.app # 0
                  THEN [pi |-> child, app |-> h[child].pi.app,
                        dir |-> h[child].pi.dir, oob |-> oob1, nullDeref |-> FALSE]
                  ELSE SearchEdgesNoLenCheck(h, child, buf, off + 1, data_len - 1, 0,
                                   h[child].child, oob1)
             ELSE SearchEdgesNoLenCheck(h, node, buf, off, data_len, i + 1,
                              h[child].sibling, oob1)

\* a matcher that, when the subtree under a matching edge yields nothing, goes
\* on to the next sibling: r is what that subtree yielded
RECURSIVE SearchEdgesBacktracking(_, _, _, _, _, _, _, _)
BacktrackOnNull(r, h, node, buf, off, data_len, i, child, oob) ==
    IF r.pi # NULL THEN r
    ELSE SearchEdgesBacktracking(h, node, buf, off, data_len, i + 1,
                                 h[child].sibling, oob)

SearchEdgesBacktracking(h, node, buf, off, data_len, i, child, oob) ==
    IF i >= h[node].num_children \/ child = NULL THEN NoResult(oob, FALSE)
    ELSE IF ~EdgeMatches(EdgeAt(h[node], i), buf, off)
    THEN SearchEdgesBacktracking(h, node, buf, off, data_len, i + 1,
                                 h[child].sibling, oob)
    ELSE IF h[child].pi.app # 0
    THEN [pi |-> child, app |-> h[child].pi.app, dir |-> h[child].pi.dir,
          oob |-> oob, nullDeref |-> FALSE]
    ELSE BacktrackOnNull(IF data_len = 1 THEN NoResult(oob, FALSE)
                         ELSE SearchEdgesBacktracking(h, child, buf, off + 1,
                                                      data_len - 1, 0,
                                                      h[child].child, oob),
                         h, node, buf, off, data_len, i, child, oob)

\* a matcher whose child pointer stays on the first child while the edge
\* index advances
RECURSIVE SearchEdgesChildNotAdvanced(_, _, _, _, _, _, _, _)
SearchEdgesChildNotAdvanced(h, node, buf, off, data_len, i, child, oob) ==
    IF i >= h[node].num_children \/ child = NULL THEN NoResult(oob, FALSE)
    ELSE IF ~EdgeMatches(EdgeAt(h[node], i), buf, off)
    THEN SearchEdgesChildNotAdvanced(h, node, buf, off, data_len, i + 1, child,
                                     oob)
    ELSE IF h[child].pi.app # 0
    THEN [pi |-> child, app |-> h[child].pi.app, dir |-> h[child].pi.dir,
          oob |-> oob, nullDeref |-> FALSE]
    ELSE IF data_len = 1 THEN NoResult(oob, FALSE)
    ELSE SearchEdgesChildNotAdvanced(h, child, buf, off + 1, data_len - 1, 0,
                                     h[child].child, oob)

\* the iterations lo .. hi - 1 of the for loop of lines 494-518 that only
\* advance child (line 517), with `child` and oob as they stand before them:
\* [stop, i, child, oob], stop when iteration i finds child NULL or its edge
\* matching; the range is halved as in ScanRange
RECURSIVE SearchEdges(_, _, _, _, _, _, _, _)
RECURSIVE SkipRange(_, _, _, _, _, _, _, _)
SkipNext(r, h, node, buf, off, hi) ==
    IF r.stop THEN r
    ELSE SkipRange(h, node, buf, off, r.i, hi, r.child, r.oob)

SkipRange(h, node, buf, off, lo, hi, child, oob) ==
    IF lo >= hi THEN [stop |-> FALSE, i |-> lo, child |-> child, oob |-> oob]
    ELSE IF hi = lo + 1
    THEN IF child = NULL \/ EdgeMatches(EdgeAt(h[node], lo), buf, off)
         THEN [stop |-> TRUE, i |-> lo, child |-> child, oob |-> oob]
         ELSE [stop |-> FALSE, i |-> hi, child |-> h[child].sibling,
               oob |-> oob \/ off >= Len(buf)]
    ELSE SkipNext(SkipRange(h, node, buf, off, lo, (lo + hi) \div 2, child,
                            oob),
                  h, node, buf, off, hi)

\* the iteration r.i the loop stopped at (lines 495-513), or line 521
SearchAt(r, h, node, buf, off, data_len, oob1) ==
    IF ~r.stop THEN NoResult(r.oob, FALSE)
    ELSE IF r.child = NULL THEN NoResult(oob1, TRUE)
    ELSE IF h[r.child].pi.app # 0
    THEN [pi |-> r.child, app |-> h[r.child].pi.app,
          dir |-> h[r.child].pi.dir, oob |-> oob1, nullDeref |-> FALSE]
    ELSE IF data_len = 1 THEN NoResult(oob1, FALSE)
    ELSE SearchEdges(h, r.child, buf, off + 1, data_len - 1, 0,
                     h[r.child].child, oob1)

\* oob after the test of line 495 in iteration r.i
OobAt(r, h, node, buf, off) ==
    r.oob \/ (r.stop /\ EdgeAt(h[node], r.i) # WILDCARD /\ off >= Len(buf))

SearchStopped(r, h, node, buf, off, data_len) ==
    SearchAt(r, h, node, buf, off, data_len, OobAt(r, h, node, buf, off))

\* the for loop from index i to its return
SearchEdges(h, node, buf, off, data_len, i, child, oob) ==
    SearchStopped(SkipRange(h, node, buf, off, i, h[node].num_children, child,
                            oob),
                  h, node, buf, off, data_len)

\* search_keyword_dict(root, data, data_len); data is never NULL here
search_keyword_dict(h, root, buf, data_len) ==
    IF root = NULL \/ data_len = 0 THEN NoResult(FALSE, FALSE)
    ELSE SearchEdges(h, root, buf, 0, data_len, 0, h[root].child, FALSE)

(***************************************************************************)
(* destroy_kdn                                                             *)
(***************************************************************************)
\* a while loop that destroys the first child only
DestroyChildrenFirstOnly(h, child) ==
    IF child = NULL THEN <<>> ELSE <<child>>

\* destroy_kdn(node) as the sequence of its free() calls, in order
RECURSIVE destroy_kdn(_, _)
RECURSIVE DestroyChildren(_, _)
destroy_kdn(h, node) ==
    IF node = NULL THEN <<>>
    ELSE IF h[node].child = NULL \/ h[node].num_children = 0 THEN <<node>>
    ELSE DestroyChildren(h, h[node].child) \o <<node>>

\* the while loop of lines 277-286 from `child`
DestroyChildren(h, child) ==
    IF child = NULL THEN <<>>
    ELSE LET sibling == h[child].sibling
         IN  destroy_kdn(h, child) \o DestroyChildren(h, sibling)

\* ids that occur more than once in a sequence of free() calls
FreedTwice(order) ==
    {order[j] : j \in {x \in 1..Len(order) :
                          \E y \in 1..Len(order) : y < x /\ order[y] = order[x]}}

(***************************************************************************)
(* Public entry points, as functions of the globals                        *)
(***************************************************************************)
\* the globals after a call, with what it returned; built: a root was
\* allocated; nullDeref: the call dereferenced a NULL node
Globals(kw, n, root, h, ret, built, nullDeref) ==
    [keywords |-> kw, num_keywords |-> n, root |-> root, heap |-> h,
     ret |-> ret, built |-> built, nullDeref |-> nullDeref]

\* line 545 and the return of line 547, on table t
InitConstructed(t, c) ==
    Globals(t.keywords, t.num_keywords, c.root, c.res.heap, 0, c.ret = 0,
            c.res.nullDeref)

\* lines 538-547, after the table became t
InitWithTable(t, root, h) ==
    IF t.ret # 0
    THEN Globals(t.keywords, t.num_keywords, root, h, 1, FALSE, FALSE)
    ELSE InitConstructed(t, construct_keyword_dict(h, root, t.keywords,
                                                   t.num_keywords))

\* proto_identify_init_keyword_dict()
InitRebuildsAlways(kw, n, root, h) ==
    InitWithTable(IF n = 0 THEN init_keywords(kw, n)
                  ELSE [keywords |-> kw, num_keywords |-> n, ret |-> 0],
                  NULL, h)

proto_identify_init_keyword_dict(kw, n, root, h) ==
    IF root # NULL THEN Globals(kw, n, root, h, 1, FALSE, FALSE)
    ELSE InitWithTable(IF n = 0 THEN init_keywords(kw, n)
                       ELSE [keywords |-> kw, num_keywords |-> n, ret |-> 0],
                       root, h)

\* lines 579-583: the port of search result r
PortOf(r) == IF r.pi # NULL THEN r.app ELSE 0

\* line 578 on the globals g
SearchIn(g, tcp_data, len) ==
    IF g.nullDeref THEN NoResult(FALSE, TRUE)
    ELSE search_keyword_dict(g.heap, g.root, tcp_data, len)

\* lines 578-583 on the globals g: [g, r]
SearchAfterInit(g, tcp_data, len) == [g |-> g, r |-> SearchIn(g, tcp_data, len)]

\* a classify that builds the tree anew on every call
IdentifyRebuildsEachCall(kw, n, root, h, tcp_data, len) ==
    SearchAfterInit(InitRebuildsAlways(kw, n, root, h), tcp_data, len)

\* identify_tcp_protocol(tcp_data, len) with len > 0: the globals after the lazy
\* initialisation of lines 574-576, and the search result of line 578
IdentifyWithoutLazyInit(kw, n, root, h, tcp_data, len) ==
    SearchAfterInit(Globals(kw, n, root, h, 0, FALSE, FALSE), tcp_data, len)

identify_tcp_protocol(kw, n, root, h, tcp_data, len) ==
    SearchAfterInit(IF root = NULL
                    THEN proto_identify_init_keyword_dict(kw, n, root, h)
                    ELSE Globals(kw, n, root, h, 0, FALSE, FALSE),
                    tcp_data, len)

\* what identify_tcp_protocol(tcp_data, Len(tcp_data)) returns on given globals
PortIn(kw, n, root, h, tcp_data) ==
    IF Len(tcp_data) = 0 THEN 0
    ELSE PortOf(identify_tcp_protocol(kw, n, root, h, tcp_data,
                                      Len(tcp_data)).r)

\* what it returns on the globals as they are
Port(tcp_data) == PortIn(keywords, num_keywords, kd_root, heap, tcp_data)

\* a completed call: its arguments, what it returned, whether it built the
\* tree, and whether its search read past the end of the buffer
Call(op, data, len, ret, built, oob) ==
    [op |-> op, data |-> data, len |-> len, ret |-> ret, built |-> built,
     oob |-> oob]

NoCall == Call("none", <<>>, 0, 0, FALSE, FALSE)

\* kd_root points at a node that was passed to free()
Dangling == kd_root # NULL /\ kd_root \in freed
\* kd_root points at an allocated tree
Live == kd_root # NULL /\ kd_root \notin freed

\* a value a read of freed memory is taken to produce for the port, besides
\* the one the walk finds when the freed nodes still hold what they held
GarbagePorts == {65535}

(***************************************************************************)
(* The calls of a sequential caller                                        *)
(***************************************************************************)
\* the globals become g
SetGlobals(g) ==
    /\ keywords' = g.keywords
    /\ num_keywords' = g.num_keywords
    /\ kd_root' = g.root
    /\ heap' = g.heap
    /\ roots' = IF g.built THEN roots \cup {g.root} ELSE roots

InitReturns(g) ==
    /\ SetGlobals(g)
    /\ crashed' = g.nullDeref
    /\ last' = Call("init", <<>>, 0, g.ret, g.built, FALSE)

InitCall ==
    /\ ~crashed
    /\ InitReturns(proto_identify_init_keyword_dict(keywords, num_keywords,
                                                    kd_root, heap))
    /\ UNCHANGED <<freed, refreed, uaf, charSigned, pc, loc, adds>>

\* destroy_kdn(kd_root) made the free() calls of order
DestroyFrees(order) ==
    IF kd_root \notin freed
    THEN /\ freed' = freed \cup Range(order)
         /\ refreed' = refreed \cup FreedTwice(order)
         /\ UNCHANGED <<uaf, crashed>>
    ELSE \* destroy_kdn reads, then frees, nodes already freed
         /\ uaf' = TRUE
         /\ \E again \in {{}, {kd_root}, Range(order)}, killed \in BOOLEAN :
                /\ again = {} => killed
                /\ refreed' = refreed \cup again
                /\ crashed' = killed
         /\ UNCHANGED freed

DestroyCall ==
    /\ ~crashed
    /\ last' = Call("destroy", <<>>, 0, 0, FALSE, FALSE)
    /\ IF kd_root = NULL
       THEN UNCHANGED <<freed, refreed, uaf, crashed>>
       ELSE DestroyFrees(destroy_kdn(heap, kd_root))
    /\ UNCHANGED <<keywords, num_keywords, kd_root, heap, roots, charSigned,
                   pc, loc, adds>>

\* identify_tcp_protocol(tcp_data, len), len > 0, came to c = [g, r]
ClassifyReturns(c, tcp_data, len) ==
    IF Dangling
    THEN \* search_keyword_dict walks freed nodes
         /\ uaf' = TRUE
         /\ \E killed \in BOOLEAN, port \in GarbagePorts \cup {PortOf(c.r)} :
                /\ crashed' = killed
                /\ last' = IF killed THEN last
                           ELSE Call("classify", tcp_data, len, port, FALSE,
                                     c.r.oob)
         /\ UNCHANGED <<keywords, num_keywords, kd_root, heap, roots>>
    ELSE /\ SetGlobals(c.g)
         /\ crashed' = c.r.nullDeref
         /\ last' = IF c.r.nullDeref THEN last
                    ELSE Call("classify", tcp_data, len, PortOf(c.r),
                              c.g.built, c.r.oob)
         /\ UNCHANGED uaf

ClassifyCallEmptyIsError(tcp_data) ==
    /\ ~crashed
    /\ IF Len(tcp_data) = 0
       THEN /\ last' = Call("classify", tcp_data, 0, 65535, FALSE, FALSE)
            /\ UNCHANGED <<keywords, num_keywords, kd_root, heap, roots, uaf,
                           crashed>>
       ELSE ClassifyReturns(identify_tcp_protocol(keywords, num_keywords,
                                                  kd_root, heap, tcp_data,
                                                  Len(tcp_data)),
                            tcp_data, Len(tcp_data))
    /\ UNCHANGED <<freed, refreed, charSigned, pc, loc, adds>>

ClassifyCall(tcp_data) ==
    /\ ~crashed
    /\ IF Len(tcp_data) = 0
       THEN /\ last' = Call("classify", tcp_data, 0, 0, FALSE, FALSE)
            /\ UNCHANGED <<keywords, num_keywords, kd_root, heap, roots, uaf,
                           crashed>>
       ELSE ClassifyReturns(identify_tcp_protocol(keywords, num_keywords,
                                                  kd_root, heap, tcp_data,
                                                  Len(tcp_data)),
                            tcp_data, Len(tcp_data))
    /\ UNCHANGED <<freed, refreed, charSigned, pc, loc, adds>>

(***************************************************************************)
(* Spec: the program as shipped, driven through its three entry points     *)
(***************************************************************************)
Callers == 1..NumCallers

IdleLoc == [data |-> <<>>, n |-> 0, k |-> 0, i |-> 0, ret |-> 0]

InitGlobals ==
    /\ keywords = ZeroKeywords
    /\ num_keywords = 0
    /\ kd_root = NULL
    /\ heap = <<>>
    /\ freed = {}
    /\ refreed = {}
    /\ uaf = FALSE
    /\ crashed = FALSE
    /\ roots = {}
    /\ last = NoCall
    /\ charSigned \in BOOLEAN
    /\ pc = [p \in Callers |-> "idle"]
    /\ loc = [p \in Callers |-> IdleLoc]
    /\ adds = 0

Init == InitGlobals

TlsHello(xx, yy, t) == <<22, 3, 1, xx, yy, t>>

\* bytes tried at the wildcard positions by the callers
SampleBytes == {0, 128, 255}

Prefixes(s) == {SubSeq(s, 1, k) : k \in 0..Len(s)}

TlsInputs ==
    Prefixes(TlsHello(0, 47, 1))
    \cup {TlsHello(xx, yy, t) : xx, yy \in SampleBytes, t \in {1, 2, 3}}
    \cup {<<255, 255, 255>>, <<22, 3, 2, 0, 47, 1>>, <<22, 3, 1, 0, 47, 1, 0>>}

Classify == \E tcp_data \in TlsInputs : ClassifyCall(tcp_data)

Next == InitCall \/ DestroyCall \/ Classify

Spec == Init /\ [][Next]_vars

(***************************************************************************)
(* SpecDict: the same entry points behind a harness that first fills the   *)
(* keyword table through add_keyword with signatures of its own, so that   *)
(* proto_identify_init_keyword_dict (which calls init_keywords only for an *)
(* empty table) builds the tree from them.                                 *)
(***************************************************************************)
Ones(k) == [j \in 1..k |-> 1]

Sig(value, dir, app) == [value |-> value, pi |-> [dir |-> dir, app |-> app]]

\* the signatures the harness adds: a shared prefix, a wildcard beside a
\* literal, a signature that ends inside another, a repeated path with another
\* inference, a byte above 0x7F, the longest accepted length and one beyond it
SigPool ==
    { Sig(<<22, 3>>, DIR_CLIENT, 443),
      Sig(<<22, WILDCARD>>, DIR_SERVER, 80),
      Sig(<<WILDCARD, 3>>, DIR_CLIENT, 22),
      Sig(<<22>>, DIR_UNKNOWN, 25),
      Sig(<<22, 3>>, DIR_SERVER, 8080),
      Sig(<<200>>, DIR_CLIENT, 53),
      Sig(Ones(MAX_VAL_LEN), DIR_CLIENT, 21),
      Sig(Ones(MAX_VAL_LEN + 1), DIR_CLIENT, 23) }

\* a table of n entries, the reference catalog over and over
Prefilled(n) ==
    [j \in 1..n |->
        IF j % 2 = 1
        THEN [value |-> TlsClientHello, value_len |-> Len(TlsClientHello),
              pi |-> [dir |-> DIR_CLIENT, app |-> TlsPort]]
        ELSE [value |-> TlsServerHello, value_len |-> Len(TlsServerHello),
              pi |-> [dir |-> DIR_SERVER, app |-> TlsPort]]]

InitDict == InitGlobals

\* add_keyword returned a
AddReturns(a, value, value_bytes_len) ==
    /\ adds' = IF a.ret = 0 THEN adds + 1 ELSE adds
    /\ keywords' = a.keywords
    /\ num_keywords' = a.num_keywords
    /\ last' = Call("add", value, value_bytes_len, a.ret, FALSE, FALSE)

\* add_keyword(value, sizeof(value), &pi), before the tree is built
AddCall(value, pi) ==
    /\ ~crashed
    /\ kd_root = NULL
    /\ adds < MaxAdds
    /\ AddReturns(add_keyword(keywords, num_keywords, value, SizeofValue(value),
                              pi),
                  value, SizeofValue(value))
    /\ UNCHANGED <<kd_root, heap, freed, refreed, uaf, crashed, roots,
                   charSigned, pc, loc>>

Add == \E s \in SigPool : AddCall(s.value, s.pi)

DictInputs ==
    { <<>>, <<22>>, <<22, 3>>, <<22, 5>>, <<5, 3>>, <<200>>,
      Ones(MAX_VAL_LEN), Ones(MAX_VAL_LEN - 1) }

ClassifyDict == \E tcp_data \in DictInputs : ClassifyCall(tcp_data)

NextDict == Add \/ InitCall \/ DestroyCall \/ ClassifyDict

SpecDict == InitDict /\ [][NextDict]_vars

(***************************************************************************)
(* SpecTable: the harness on a table one entry short of MAX_KEYWORDS       *)
(***************************************************************************)
InitTable ==
    /\ num_keywords = MAX_KEYWORDS - 1
    /\ keywords = Prefilled(num_keywords)
    /\ kd_root = NULL
    /\ heap = <<>>
    /\ freed = {}
    /\ refreed = {}
    /\ uaf = FALSE
    /\ crashed = FALSE
    /\ roots = {}
    /\ last = NoCall
    /\ charSigned \in BOOLEAN
    /\ pc = [p \in Callers |-> "idle"]
    /\ loc = [p \in Callers |-> IdleLoc]
    /\ adds = 0

NextTable == Add \/ InitCall \/ ClassifyDict

SpecTable == InitTable /\ [][NextTable]_vars

(***************************************************************************)
(* SpecWide: the harness on a table one entry short of MAX_KEYWORDS whose  *)
(* signatures all branch at one node, at the root or one level below it    *)
(***************************************************************************)
\* n one-symbol signatures with the symbols 0 .. n - 1
Wide(n) ==
    [j \in 1..n |-> [value |-> <<j - 1>>, value_len |-> 1,
                     pi |-> [dir |-> DIR_CLIENT, app |-> j]]]

\* n two-symbol signatures 7 0 .. 7 (n - 1)
Deep(n) ==
    [j \in 1..n |-> [value |-> <<7, j - 1>>, value_len |-> 2,
                     pi |-> [dir |-> DIR_SERVER, app |-> j]]]

InitWide ==
    /\ num_keywords = MAX_KEYWORDS - 1
    /\ keywords \in {Wide(num_keywords), Deep(num_keywords)}
    /\ kd_root = NULL
    /\ heap = <<>>
    /\ freed = {}
    /\ refreed = {}
    /\ uaf = FALSE
    /\ crashed = FALSE
    /\ roots = {}
    /\ last = NoCall
    /\ charSigned \in BOOLEAN
    /\ pc = [p \in Callers |-> "idle"]
    /\ loc = [p \in Callers |-> IdleLoc]
    /\ adds = 0

\* the signature that fills the table: one more symbol at the root, a
\* wildcard at the node below it, or a symbol the root already has
WidePool ==
    { Sig(<<255>>, DIR_CLIENT, 256),
      Sig(<<7, WILDCARD>>, DIR_CLIENT, 257),
      Sig(<<0>>, DIR_SERVER, 258) }

AddWide == \E s \in WidePool : AddCall(s.value, s.pi)

WideInputs == { <<0>>, <<255>>, <<7, 255>> }

ClassifyWide == \E tcp_data \in WideInputs : ClassifyCall(tcp_data)

NextWide == AddWide \/ InitCall \/ ClassifyWide

SpecWide == InitWide /\ [][NextWide]_vars

(***************************************************************************)
(* SpecRace: NumCallers threads, each calling identify_tcp_protocol once   *)
(* on a non-empty buffer, interleaved at the reads and writes of the       *)
(* globals.  One keyword_dict_add_keyword and one search_keyword_dict are  *)
(* each taken as a single step.                                            *)
(***************************************************************************)
RaceInputs == {TlsHello(0, 47, 1), <<255, 255, 255>>}

Goto(p, label) == pc' = [pc EXCEPT ![p] = label]

\* caller p is about to run the step at label
At(p, label) == ~crashed /\ pc[p] = label

\* the signature of the k-th block of add_tls_identifiers
TlsBlock(k) ==
    IF k = 1 THEN Sig(TlsClientHello, DIR_CLIENT, TlsPort)
    ELSE Sig(TlsServerHello, DIR_SERVER, TlsPort)

\* the call, with len > 0 (line 570)
RaceCall(p, tcp_data) ==
    /\ At(p, "idle")
    /\ loc' = [loc EXCEPT ![p] = [IdleLoc EXCEPT !.data = tcp_data]]
    /\ Goto(p, "id_check")
    /\ UNCHANGED <<keywords, num_keywords, kd_root, heap, freed, refreed, uaf,
                   crashed, roots, last, charSigned, adds>>

\* line 574
RaceIdCheck(p) ==
    /\ At(p, "id_check")
    /\ Goto(p, IF kd_root = NULL THEN "init_check" ELSE "search")
    /\ UNCHANGED <<keywords, num_keywords, kd_root, heap, freed, refreed, uaf,
                   crashed, roots, last, charSigned, loc, adds>>

\* line 532
RaceInitCheck(p) ==
    /\ At(p, "init_check")
    /\ Goto(p, IF kd_root # NULL THEN "search" ELSE "init_count")
    /\ UNCHANGED <<keywords, num_keywords, kd_root, heap, freed, refreed, uaf,
                   crashed, roots, last, charSigned, loc, adds>>

\* line 536
RaceInitCount(p) ==
    /\ At(p, "init_count")
    /\ Goto(p, IF num_keywords = 0 THEN "memset" ELSE "construct_check")
    /\ UNCHANGED <<keywords, num_keywords, kd_root, heap, freed, refreed, uaf,
                   crashed, roots, last, charSigned, loc, adds>>

\* line 206
RaceMemset(p) ==
    /\ At(p, "memset")
    /\ keywords' = ZeroKeywords
    /\ loc' = [loc EXCEPT ![p].k = 1]
    /\ Goto(p, "add_load")
    /\ UNCHANGED <<num_keywords, kd_root, heap, freed, refreed, uaf, crashed,
                   roots, last, charSigned, adds>>

\* add_keyword, lines 113-127: num_keywords is read; a full table fails the
\* initialisation, and identify_tcp_protocol goes on to search
RaceAddLoad(p) ==
    /\ At(p, "add_load")
    /\ loc' = [loc EXCEPT ![p].n = num_keywords]
    /\ Goto(p, IF num_keywords >= MAX_KEYWORDS THEN "search" ELSE "add_store")
    /\ UNCHANGED <<keywords, num_keywords, kd_root, heap, freed, refreed, uaf,
                   crashed, roots, last, charSigned, adds>>

\* add_keyword, lines 130-134
RaceAddStore(p) ==
    /\ At(p, "add_store")
    /\ keywords' = SetKeyword(keywords, loc[p].n,
                              [value |-> TlsBlock(loc[p].k).value,
                               value_len |-> Len(TlsBlock(loc[p].k).value),
                               pi |-> TlsBlock(loc[p].k).pi])
    /\ Goto(p, "add_inc")
    /\ UNCHANGED <<num_keywords, kd_root, heap, freed, refreed, uaf, crashed,
                   roots, last, charSigned, loc, adds>>

\* add_keyword, line 139: the unsynchronised num_keywords++ adds one either to
\* the value in memory or to the value this caller read at line 113
RaceAddInc(p) ==
    /\ At(p, "add_inc")
    /\ num_keywords' \in {num_keywords + 1, loc[p].n + 1}
    /\ loc' = [loc EXCEPT ![p].k = @ + 1]
    /\ Goto(p, IF loc[p].k = 1 THEN "add_load" ELSE "construct_check")
    /\ UNCHANGED <<keywords, kd_root, heap, freed, refreed, uaf, crashed,
                   roots, last, charSigned, adds>>

\* line 444
RaceConstructCheck(p) ==
    /\ At(p, "construct_check")
    /\ Goto(p, IF kd_root # NULL THEN "search" ELSE "alloc_root")
    /\ UNCHANGED <<keywords, num_keywords, kd_root, heap, freed, refreed, uaf,
                   crashed, roots, last, charSigned, loc, adds>>

\* line 448
RaceAllocRoot(p) ==
    /\ At(p, "alloc_root")
    /\ heap' = alloc_kdn(heap).heap
    /\ kd_root' = alloc_kdn(heap).ptr
    /\ roots' = roots \cup {alloc_kdn(heap).ptr}
    /\ loc' = [loc EXCEPT ![p].i = 0]
    /\ Goto(p, "loop")
    /\ UNCHANGED <<keywords, num_keywords, freed, refreed, uaf, crashed, last,
                   charSigned, adds>>

\* keyword_dict_add_keyword returned r
RaceInserted(r) ==
    /\ heap' = r.heap
    /\ crashed' = r.nullDeref

\* lines 454-461: one iteration, on *root and num_keywords as they are now
RaceLoop(p) ==
    /\ At(p, "loop")
    /\ IF loc[p].i < num_keywords
       THEN /\ RaceInserted(keyword_dict_add_keyword(heap, kd_root,
                                            KeywordAt(keywords, loc[p].i)))
            /\ loc' = [loc EXCEPT ![p].i = @ + 1]
            /\ UNCHANGED pc
       ELSE /\ Goto(p, "search")
            /\ UNCHANGED <<heap, crashed, loc>>
    /\ UNCHANGED <<keywords, num_keywords, kd_root, freed, refreed, uaf, roots,
                   last, charSigned, adds>>

\* search_keyword_dict returned r
RaceSearched(p, r) ==
    /\ crashed' = r.nullDeref
    /\ loc' = [loc EXCEPT ![p].ret = PortOf(r)]

\* lines 578-583
RaceSearch(p) ==
    /\ At(p, "search")
    /\ RaceSearched(p, search_keyword_dict(heap, kd_root, loc[p].data,
                                           Len(loc[p].data)))
    /\ Goto(p, "done")
    /\ UNCHANGED <<keywords, num_keywords, kd_root, heap, freed, refreed, uaf,
                   roots, last, charSigned, adds>>

RaceStep(p) ==
    \/ \E tcp_data \in RaceInputs : RaceCall(p, tcp_data)
    \/ RaceIdCheck(p)
    \/ RaceInitCheck(p)
    \/ RaceInitCount(p)
    \/ RaceMemset(p)
    \/ RaceAddLoad(p)
    \/ RaceAddStore(p)
    \/ RaceAddInc(p)
    \/ RaceConstructCheck(p)
    \/ RaceAllocRoot(p)
    \/ RaceLoop(p)
    \/ RaceSearch(p)

NextRace == \E p \in Callers : RaceStep(p)

SpecRace == InitGlobals /\ [][NextRace]_vars

(***************************************************************************)
(* Properties                                                              *)
(***************************************************************************)
Bytes == 0..255

\* what a matcher of the reference catalog returns, read off the two signatures
RefTlsPort(d) ==
    IF Len(d) >= 6 /\ d[1] = 22 /\ d[2] = 3 /\ d[3] = 1 /\ d[6] \in {1, 2}
    THEN TlsPort ELSE 0

\* the k-th child (k = 0 for the first) on the sibling list starting at child
RECURSIVE NthChild(_, _, _)
NthChild(h, child, k) ==
    IF child = NULL \/ k = 0 THEN child
    ELSE IF k = 1 THEN h[child].sibling
    ELSE NthChild(h, NthChild(h, child, k \div 2), k - (k \div 2))

\* indices of the edges of node that byte b matches
MatchingEdges(h, node, b) ==
    {i \in 0..(h[node].num_children - 1) :
        EdgeAt(h[node], i) = WILDCARD \/ EdgeAt(h[node], i) = ToChar(b)}

Least(S) == CHOOSE x \in S : \A y \in S : x <= y

\* the node under the earliest-created edge of node that matches b, or NULL
FirstMatchChild(h, node, b) ==
    IF MatchingEdges(h, node, b) = {} THEN NULL
    ELSE NthChild(h, h[node].child, Least(MatchingEdges(h, node, b)))

\* the nodes visited for buf[1..j] from the root by first-match descent,
\* NULL from the first byte that matches no edge
RECURSIVE Visited(_, _, _, _)
Visited(h, root, buf, j) ==
    IF j = 0 THEN <<>>
    ELSE LET before == Visited(h, root, buf, j - 1)
             from == IF j = 1 THEN root ELSE before[j - 1]
         IN  Append(before, IF from = NULL THEN NULL
                            ELSE FirstMatchChild(h, from, buf[j]))

\* every byte of buf follows a matching edge, and no node reached carries a
\* non-zero protocol id
ExhaustedOn(h, v) ==
    /\ Len(v) > 0
    /\ \A j \in 1..Len(v) : v[j] # NULL /\ h[v[j]].pi.app = 0

Exhausted(h, root, buf) == ExhaustedOn(h, Visited(h, root, buf, Len(buf)))

----------------------------------------------------------------------------
\* C1: destroy_dictionary with no live tree is a no-op; after init_dictionary,
\* two destroy_dictionary calls in a row pass no node to free() twice.
\* (The second call walks and frees the nodes again: kd_root is never reset.)
C1_NoNodeFreedTwice == refreed = {}

\* C2: when several callers race into the lazy initialisation, exactly one
\* build occurs: once every caller has returned, one root node was allocated
\* and the table holds each catalog signature exactly once.
C2_SingleBuild ==
    (\A p \in Callers : pc[p] = "done") =>
        /\ Cardinality(roots) = 1
        /\ num_keywords = 2
        /\ KeywordAt(keywords, 0).value = TlsClientHello
        /\ KeywordAt(keywords, 1).value = TlsServerHello

\* C3: init_dictionary is refused as already-initialized only while a tree is
\* currently built; after init, destroy the next init succeeds and rebuilds.
\* (After destroy kd_root still holds the freed root, so init returns 1.)
C3_RefusedOnlyWhileBuilt ==
    (last.op = "init" /\ last.ret = 1) => Live

----------------------------------------------------------------------------
\* C4: with the reference TLS catalog built, classify returns 443 for every
\* 16 03 01 xx yy 01 and 16 03 01 xx yy 02 and 0 for every input that differs
\* in a literal position (16 03 01 xx yy 03, FF FF FF, one literal byte
\* changed).  The byte pairs xx yy range over all 65536 values in the states
\* an init call leaves and over SampleBytes in every other state with a tree.
C4_Pairs == IF last.op = "init" THEN Bytes ELSE SampleBytes

C4_TlsCatalog ==
    Live =>
      /\ \A xx \in C4_Pairs, yy \in C4_Pairs :
            /\ Port(TlsHello(xx, yy, 1)) = TlsPort
            /\ Port(TlsHello(xx, yy, 2)) = TlsPort
            /\ Port(TlsHello(xx, yy, 3)) = 0
      /\ Port(<<255, 255, 255>>) = 0
      /\ \A b \in Bytes :
            /\ b # 22 => Port(<<b, 3, 1, 0, 47, 1>>) = 0
            /\ b # 3 => Port(<<22, b, 1, 0, 47, 1>>) = 0
            /\ b # 1 => Port(<<22, 3, b, 0, 47, 2>>) = 0
            /\ b \notin {1, 2} => Port(<<22, 3, 1, 0, 47, b>>) = 0
      /\ (last.op = "classify" /\ ~crashed) => last.ret = RefTlsPort(last.data)

C4_Witness ==
    /\ Live
    /\ last.op = "classify"
    /\ last.data = TlsHello(128, 255, 2)
    /\ last.ret = TlsPort


----------------------------------------------------------------------------
\* C5: classify returns 0 whenever the input is exhausted before a node with a
\* non-zero protocol id is reached (every byte followed a matching edge), for
\* every dictionary the harness builds and the reference catalog, and the
\* walk never reads a byte at or past the end of the buffer.
C5_Inputs == DictInputs \cup Prefixes(TlsHello(0, 47, 1))

C5_ExhaustedInputIsUnknown ==
    /\ last.op = "classify" => ~last.oob
    /\ Live =>
          \A d \in C5_Inputs :
              /\ ~search_keyword_dict(heap, kd_root, d, Len(d)).oob
              /\ Exhausted(heap, kd_root, d) => Port(d) = 0

\* an input one byte short of the longest signature was classified on a tree
\* the harness filled, and ran out inside that signature
C5_Witness ==
    /\ Live
    /\ adds > 0
    /\ last.op = "classify"
    /\ last.len = MAX_VAL_LEN - 1
    /\ Exhausted(heap, kd_root, last.data)
    /\ last.ret = 0

\* C6: classify on an empty buffer returns 0 whatever the dictionary holds and
\* whether the tree was never built, is built, or was torn down.
C6_EmptyInputIsUnknown ==
    (last.op = "classify" /\ last.len = 0) => last.ret = 0

\* an empty buffer was classified after the tree was torn down
C6_Witness ==
    /\ Dangling
    /\ adds > 0
    /\ last.op = "classify"
    /\ last.len = 0

\* C7: init_dictionary on a built tree returns failure and leaves the tree and
\* the table as they were, so classify returns what it returned before.
C7_SecondInitChangesNothing ==
    [][(Live /\ last'.op = "init") =>
          /\ last'.ret = 1
          /\ UNCHANGED <<keywords, num_keywords, kd_root, heap, freed, roots>>
          /\ \A d \in DictInputs :
                PortIn(keywords', num_keywords', kd_root', heap', d) = Port(d)]_vars

\* init_dictionary failed on a tree the harness filled
C7_Witness ==
    /\ Live
    /\ adds > 0
    /\ last.op = "init"
    /\ last.ret = 1

\* C8: add on a table holding MAX_KEYWORDS signatures, and add of a signature
\* of more than MAX_VAL_LEN symbols, return failure and change neither the
\* signature count nor a stored signature.
C8_RejectedAddChangesNothing ==
    [][(/\ last'.op = "add"
        /\ \/ num_keywords >= MAX_KEYWORDS
           \/ Len(last'.data) > MAX_VAL_LEN) =>
          /\ last'.ret = 1
          /\ UNCHANGED <<keywords, num_keywords>>]_vars

\* a signature of accepted length was refused by the full table
C8_Witness ==
    /\ num_keywords = MAX_KEYWORDS
    /\ Len(keywords) = MAX_KEYWORDS
    /\ last.op = "add"
    /\ Len(last.data) <= MAX_VAL_LEN
    /\ last.ret = 1

\* C9: a classify of a non-empty buffer made while kd_root is NULL builds the
\* tree before it searches: it returns what the catalog gives for the buffer
\* (443 for 16 03 01 00 2F 01), which is what classify returns once built.
C9_FirstClassifyBuilds ==
    [][(kd_root = NULL /\ last'.op = "classify" /\ last'.len > 0) =>
          /\ last'.built
          /\ Live'
          /\ last'.ret = RefTlsPort(last'.data)
          /\ last'.ret = PortIn(keywords', num_keywords', kd_root', heap',
                              last'.data)]_vars

\* the first classify of 16 03 01 00 2F 01 built the tree and returned 443
C9_Witness ==
    /\ last.op = "classify"
    /\ last.built
    /\ last.data = TlsHello(0, 47, 1)
    /\ last.ret = TlsPort

\* C10: no node has two outgoing edges with the same symbol (WILDCARD being one
\* more symbol), and signatures share the path of their common prefix: the
\* tree has exactly one node per distinct prefix of the table's signatures.
TablePrefixes ==
    {<<>>} \cup UNION {Prefixes(KeywordAt(keywords, i).value) :
                          i \in 0..(num_keywords - 1)}

NoDuplicateEdge(node) ==
    \A i, j \in 0..(node.num_children - 1) :
        i # j => EdgeAt(node, i) # EdgeAt(node, j)

C10_PrefixesShareOnePath ==
    kd_root # NULL =>
        /\ \A n \in 1..Len(heap) : NoDuplicateEdge(heap[n])
        /\ Len(heap) = Cardinality(TablePrefixes)

\* two added signatures share their first symbol and part below it
C10_Witness ==
    /\ Live
    /\ adds = 2
    /\ \E n \in 2..Len(heap) : heap[n].num_children = 2

----------------------------------------------------------------------------
\* the first-match descent for buf ends without a node that carries a non-zero
\* protocol id: a byte matched no edge, or the bytes ran out
DescentFailsOn(h, v) ==
    \A j \in 1..Len(v) : v[j] = NULL \/ h[v[j]].pi.app = 0

DescentFails(h, root, buf) ==
    DescentFailsOn(h, Visited(h, root, buf, Len(buf)))

\* some path of matching edges from node, over buf from offset off, reaches a
\* node with a non-zero protocol id (what an exhaustive search would find)
RECURSIVE BacktrackFinds(_, _, _, _)
BacktrackFinds(h, node, buf, off) ==
    /\ off < Len(buf)
    /\ \E i \in MatchingEdges(h, node, buf[off + 1]) :
           \/ h[NthChild(h, h[node].child, i)].pi.app # 0
           \/ BacktrackFinds(h, NthChild(h, h[node].child, i), buf, off + 1)

\* C11: the matcher takes the earliest-created matching edge at every node and
\* never returns to a later sibling: when the descent through those edges
\* yields nothing, classify returns 0, whatever the later siblings lead to.
C11_NoBacktracking ==
    Live => \A d \in DictInputs :
                DescentFails(heap, kd_root, d) => Port(d) = 0

\* classify returned 0 for an input that a later-created sibling edge would
\* have led to a terminal node
C11_Witness ==
    /\ Live
    /\ last.op = "classify"
    /\ last.ret = 0
    /\ BacktrackFinds(heap, kd_root, last.data, 0)

----------------------------------------------------------------------------
\* the sibling list that starts at child, in list order
RECURSIVE Children(_, _)
Children(h, child) ==
    IF child = NULL THEN <<>> ELSE <<child>> \o Children(h, h[child].sibling)

\* c lists one node per edge written, in the order the nodes were allocated
PairedWith(node, c) ==
    /\ Len(c) = node.num_children
    /\ Len(node.edge) = node.num_children
    /\ \A k \in 1..(Len(c) - 1) : c[k] < c[k + 1]

\* edge[k] of every node and the k-th node of its child list were created by
\* the same kdn_create_child or kdn_create_sibling call
EdgesPairedWithChildren(h) ==
    \A n \in 1..Len(h) : PairedWith(h[n], Children(h, h[n].child))

\* the first node with a non-zero protocol id on the first-match descent v
FirstTerminalOn(h, v) ==
    IF \A j \in 1..Len(v) : v[j] = NULL \/ h[v[j]].pi.app = 0 THEN NULL
    ELSE v[Least({j \in 1..Len(v) : v[j] # NULL /\ h[v[j]].pi.app # 0})]

FirstTerminal(h, root, buf) ==
    FirstTerminalOn(h, Visited(h, root, buf, Len(buf)))

\* C12: at a node the matcher examines the edges in creation order until one
\* matches: an earlier edge that does not match never keeps a later matching
\* edge from being taken, and the node descended into is the one created
\* together with that edge; so the terminal node the descent through the
\* earliest matching edges reaches is the one whose inference is returned.
C12_LaterMatchingEdgeTaken ==
    Live =>
        /\ EdgesPairedWithChildren(heap)
        /\ \A d \in DictInputs :
              FirstTerminal(heap, kd_root, d) # NULL =>
                  search_keyword_dict(heap, kd_root, d, Len(d)).pi =
                      FirstTerminal(heap, kd_root, d)

\* classify found a protocol through an edge of the root created after an edge
\* that did not match the first byte
C12_Witness ==
    /\ Live
    /\ last.op = "classify"
    /\ last.len > 0
    /\ last.ret # 0
    /\ MatchingEdges(heap, kd_root, last.data[1]) # {}
    /\ Least(MatchingEdges(heap, kd_root, last.data[1])) > 0

----------------------------------------------------------------------------
\* indices of the edges of node labelled sym
EdgesLabelled(node, sym) ==
    {k \in 0..(node.num_children - 1) : EdgeAt(node, k) = sym}

\* the node the symbols value[i..] lead to from node, edge label by edge
\* label, or NULL when a symbol has no edge
RECURSIVE PathFrom(_, _, _, _)
PathFrom(h, node, value, i) ==
    IF node = NULL \/ i > Len(value) THEN node
    ELSE IF EdgesLabelled(h[node], value[i]) = {} THEN NULL
    ELSE PathFrom(h, NthChild(h, h[node].child,
                              Least(EdgesLabelled(h[node], value[i]))),
                  value, i + 1)

\* the node at which the path of signature value ends
PathNode(h, root, value) == PathFrom(h, root, value, 1)

\* C13: building never fails for a table add accepted: no NULL node is
\* dereferenced, every signature's path is in the tree to its last symbol, no
\* creation is refused (the tree has a node for every prefix), and no node has
\* more edges than its edge array holds.
C13_BuildNeverFails ==
    /\ ~crashed
    /\ Live =>
          /\ \A n \in 1..Len(heap) :
                /\ heap[n].num_children <= MAX_CHILDREN
                /\ Len(heap[n].edge) <= MAX_CHILDREN
          /\ \A i \in 0..(num_keywords - 1) :
                PathNode(heap, kd_root, KeywordAt(keywords, i).value) # NULL
          /\ Len(heap) = Cardinality(TablePrefixes)

\* a tree was built from a full table of MAX_KEYWORDS signatures that branch
\* into MAX_KEYWORDS different symbols at one node
C13_Witness ==
    /\ Live
    /\ num_keywords = MAX_KEYWORDS
    /\ \E n \in 1..Len(heap) : heap[n].num_children = MAX_KEYWORDS

----------------------------------------------------------------------------
\* the table indices whose signature has the symbols of keywords[i]
SameValue(kw, n, i) ==
    {j \in 0..(n - 1) : KeywordAt(kw, j).value = KeywordAt(kw, i).value}

Greatest(S) == CHOOSE x \in S : \A y \in S : y <= x

\* keywords[j] repeats the symbols of an earlier entry
Repeats(kw, n, j) == \E i \in SameValue(kw, n, j) : i < j

\* the table without entry j
WithoutEntry(kw, j) == SubSeq(kw, 1, j) \o SubSeq(kw, j + 2, Len(kw))

\* heaps h and g hold the same nodes, but for the inference of node t
SameButInference(h, g, t) ==
    /\ Len(h) = Len(g)
    /\ \A n \in 1..Len(h) :
          IF n = t THEN [h[n] EXCEPT !.pi = ZeroPi] = [g[n] EXCEPT !.pi = ZeroPi]
          ELSE h[n] = g[n]

\* the tree construct_keyword_dict builds from the table without entry j
BuiltWithout(kw, n, j) ==
    construct_keyword_dict(<<>>, NULL, WithoutEntry(kw, j), n - 1).res.heap

----------------------------------------------------------------------------
\* C15: a literal edge labelled b matches an input byte b for every b in
\* 0..255: with the one-symbol signature [b] alone in the table, every input
\* that starts with byte b is classified as that signature's protocol id.
\* (Line 495 compares *data, a plain char, with the uint16_t edge: where char
\* is signed a byte of 0x80 or more is negative and equals no edge.)
C15_LiteralEdgeMatchesItsByte ==
    (/\ Live
     /\ num_keywords = 1
     /\ KeywordAt(keywords, 0).value_len = 1
     /\ KeywordAt(keywords, 0).value[1] \in Bytes
     /\ KeywordAt(keywords, 0).pi.app # 0)
        => \A d \in DictInputs :
               (Len(d) > 0 /\ d[1] = KeywordAt(keywords, 0).value[1])
                   => Port(d) = KeywordAt(keywords, 0).pi.app

----------------------------------------------------------------------------
\* the path of some signature of the table ends at node n
EndsAt(h, root, kw, num, n) ==
    \E i \in 0..(num - 1) : PathNode(h, root, KeywordAt(kw, i).value) = n

\* C16: after a build, a node carries an inference (a pi other than the zeroed
\* one calloc leaves) iff the path of at least one signature ends at it; nodes
\* that are only interior to longer signatures carry none.  The signatures
\* here all have a non-zero inference.
C16_InferenceIffPathEnds ==
    Live => \A n \in 1..Len(heap) :
                heap[n].pi # ZeroPi
                    <=> EndsAt(heap, kd_root, keywords, num_keywords, n)

\* a tree in which two signatures share an interior node that ends none, and
\* end at nodes below it
C16_Witness ==
    /\ Live
    /\ adds = 2
    /\ \E n \in 2..Len(heap) :
          /\ heap[n].pi = ZeroPi
          /\ heap[n].num_children = 2
          /\ heap[heap[n].child].pi # ZeroPi
          /\ heap[heap[heap[n].child].sibling].pi # ZeroPi

----------------------------------------------------------------------------
\* C17: classify on a built dictionary is a pure read: the call leaves the
\* signature table, the signature count, the root and every node of the tree
\* as they were, allocates nothing and frees nothing.
C17_ClassifyOnlyReads ==
    [][(Live /\ last'.op = "classify" /\ last' # last) =>
          /\ UNCHANGED <<keywords, num_keywords, kd_root, heap, freed, roots>>
          /\ ~last'.built
          /\ ~crashed']_vars

\* classify found a protocol in a tree the harness filled and an earlier call
\* had built
C17_Witness ==
    /\ Live
    /\ adds > 0
    /\ last.op = "classify"
    /\ ~last.built
    /\ last.ret # 0

----------------------------------------------------------------------------
\* destroy_kdn(node) as the sequence of its accesses to nodes, in order: the
\* reads of node's fields at line 269, the read of child->sibling at line 279
\* before each recursive call, and the free() calls
RECURSIVE DestroyWalk(_, _)
RECURSIVE WalkChildren(_, _)
DestroyWalk(h, node) ==
    IF node = NULL THEN <<>>
    ELSE IF h[node].child = NULL \/ h[node].num_children = 0
    THEN << [free |-> FALSE, node |-> node], [free |-> TRUE, node |-> node] >>
    ELSE << [free |-> FALSE, node |-> node] >>
         \o WalkChildren(h, h[node].child)
         \o << [free |-> TRUE, node |-> node] >>

WalkChildren(h, child) ==
    IF child = NULL THEN <<>>
    ELSE << [free |-> FALSE, node |-> child] >>
         \o DestroyWalk(h, child)
         \o WalkChildren(h, h[child].sibling)

\* in the walk w every node of nodes is freed once, and none is accessed
\* after its free()
FreesEachOnce(w, nodes) ==
    /\ \A n \in nodes :
          Cardinality({k \in 1..Len(w) : w[k].free /\ w[k].node = n}) = 1
    /\ \A k \in 1..Len(w) :
          w[k].free => \A m \in (k + 1)..Len(w) : w[m].node # w[k].node

\* the free() calls of walk w, in order
FreesOf(w) == SelectSeq(w, LAMBDA e : e.free)

\* C18: one destroy_dictionary on a built tree releases every node of the tree
\* exactly once: its walk frees each node once and touches none after its
\* free(), and afterwards every node is freed and none was freed twice.
C18_DestroyFreesEachNodeOnce ==
    [][(Live /\ last'.op = "destroy") =>
          /\ FreesEachOnce(DestroyWalk(heap, kd_root), 1..Len(heap))
          /\ [k \in 1..Len(heap) |->
                 FreesOf(DestroyWalk(heap, kd_root))[k].node]
                = destroy_kdn(heap, kd_root)
          /\ freed' = 1..Len(heap)
          /\ refreed' = {}
          /\ ~uaf'
          /\ ~crashed']_vars

\* a tree with a node of two children was torn down by one destroy
C18_Witness ==
    /\ Dangling
    /\ last.op = "destroy"
    /\ ~uaf
    /\ freed = 1..Len(heap)
    /\ \E n \in 1..Len(heap) : heap[n].num_children = 2

----------------------------------------------------------------------------
\* C19: in every state the calls can reach, kd_root is NULL or refers to a
\* tree whose nodes are all still allocated, and no classify has walked freed
\* nodes.  (destroy frees the tree and leaves kd_root pointing at it.)
C19_RootNullOrAllocated ==
    /\ kd_root # NULL => Range(destroy_kdn(heap, kd_root)) \cap freed = {}
    /\ last.op = "classify" => ~uaf

\* C20: a classify that runs while another caller's lazy initialisation is
\* under way never searches a partly built tree: every caller gets the
\* protocol id the fully built tree gives for its input.  (The root is stored
\* in kd_root at line 448, before the loop of lines 454-461 inserts anything.)
C20_NeverSearchesPartialTree ==
    \A p \in Callers :
        pc[p] = "done" => loc[p].ret = RefTlsPort(loc[p].data)

====
